---- MODULE Spec2Model ----
(***************************************************************************)
(* A model of the Aussie_Property_Predictor pipeline:                      *)
(*   Domain_Scraper.py  fetch_property_data, fetch_postcode_data, main     *)
(*   Domain_Parser.py   parse_address, parse_price, parse_html, main       *)
(* Each part of the pipeline has its own specification over the same       *)
(* variables: SpecEnum (one enumeration task and the fetch client it       *)
(* drives), SpecPool (the coordinator and its worker pool), SpecParse (the *)
(* pure extraction functions) and SpecPersist (the persistence run).       *)
(***************************************************************************)
EXTENDS Integers, Sequences, FiniteSets, TLC

(***************************************************************************)
(* Bounds of the model and constants of the program.                       *)
(***************************************************************************)
\* range(1, 6) of the source, scaled: beds runs over 1..BedsHi.
BedsHi == 2
\* range(6) of the source, scaled: bath runs over 0..BathHi.
BathHi == 1
\* range(6) of the source, scaled: park runs over 0..ParkHi.
ParkHi == 1
\* range(1, 50): the last page number requested for a combination.
PageCap == 49
\* retries=5, the default fetch_postcode_data relies on.
DefaultRetries == 5
\* At most MaxOk GETs of one enumeration succeed (bounds the histories).
MaxOk == 2

\* max_workers=10 of the source, scaled: the size of the worker pool.
MaxWorkers == 2
\* The postal codes of the run: the first NumPostcodes of SydneyPostcodes.
NumPostcodes == 3
\* At most MaxTaskPages pages are kept by one task of the pool.
MaxTaskPages == 1

\* Addresses handed to parse_address have at most MaxAddrLen characters.
MaxAddrLen == 5
\* Price texts handed to parse_price have at most MaxPriceLen characters.
MaxPriceLen == 4
\* Pages handed to parse_html hold at most MaxCards property cards.
MaxCards == 2

\* chunk_size = 10000 of the source, scaled: staged rows read per chunk.
ChunkSize == 2
\* The staging file holds at most MaxRows rows.
MaxRows == 4

\* The literal no-results marker.
NoMatch == "No exact matches"

(***************************************************************************)
(* A response body is a sequence of text fragments; <<>> is the empty      *)
(* body. `"No exact matches" in response_text` is Contains.                *)
(***************************************************************************)
Bodies == { <<>>, <<"p1">>, <<"p2">>, <<"p1", NoMatch>> }

\* What fetch_property_data returns: None, or the response's text.
None == [isNone |-> TRUE, text |-> <<>>]

Some(text) == [isNone |-> FALSE, text |-> text]

NoCall == [isNone |-> TRUE, text |-> <<"no call yet">>]

VARIABLES
  running,                  \* which part of the pipeline this run is
  \* ---- fetch_postcode_data (one task) and fetch_property_data
  beds, bath, park, page,   \* the loop variables of fetch_postcode_data
  epc,                      \* "get": at the head of the retry loop for the
                            \* current url; "done": returned; "raised"
  attempt,                  \* fetch_property_data's attempt counter
  property_html,            \* the task-local list that is returned
  \* ---- history of the enumeration (not program state)
  fetched,                  \* texts the fetch client returned, in order
  gets,                     \* GETs issued by the current (or last) call
  waits,                    \* base delays slept in the current (or last) call
  lastUrl,                  \* url of the call that returned last
  lastResult,               \* what that call returned
  requested                 \* pages requested for the combination of the
                            \* most recent request

VARIABLES
  \* ---- Domain_Scraper.main and its ThreadPoolExecutor
  cpc,                      \* main: "submit", "collect", "unwind", "write",
                            \* "returned", "failed"
  futures,                  \* the list of futures: the postcode of each
  fstate,                   \* per task: "unsubmitted", "queued", "running",
                            \* "finished", "raised"
  threads,                  \* worker threads started so far (1..threads)
  runner,                   \* per task: the worker thread that runs it
  tlocal,                   \* per task: fetch_postcode_data's property_html
  yielded,                  \* tasks as_completed has yielded
  out,                      \* main's property_html
  csv,                      \* the staging file: written or not, its rows
  \* ---- history of the pool (not program state)
  outWriters,               \* threads that wrote main's property_html
  localWriters              \* per task: threads that wrote its local list

VARIABLES
  \* ---- one call of an extraction function of Domain_Parser
  fn,                       \* the function called
  arg,                      \* its argument
  ret,                      \* what it returned, or that it raised
  ppc                       \* "call": about to be called; "done"

parseVars == <<fn, arg, ret, ppc>>

VARIABLES
  \* ---- Domain_Parser.main: the persistence run
  mpc,                      \* main: "connect", "read", "rows", "insert",
                            \* "commit", "closed", "aborted"
  staged,                   \* the rows of the staging file
  nread,                    \* staged rows read so far
  chunk,                    \* rows of the current chunk not yet iterated
  all_data,                 \* the list of extracted records
  txn,                      \* rows inserted by the open transaction
  table,                    \* the committed rows of table Domain
  \* ---- history of the persistence run (not program state)
  recordsOf,                \* per staged row iterated: records it produced
  commits                   \* per commit: rows read so far, rows committed

persistVars == <<mpc, staged, nread, chunk, all_data, txn, table, recordsOf,
                 commits>>

poolVars == <<cpc, futures, fstate, threads, runner, tlocal, yielded, out,
              csv, outWriters, localWriters>>

enumVars == <<beds, bath, park, page, epc, attempt, property_html,
              fetched, gets, waits, lastUrl, lastResult, requested>>

vars == <<running, enumVars, poolVars, parseVars, persistVars>>

(***************************************************************************)
(* fetch_postcode_data: the loop nest.                                     *)
(***************************************************************************)
BedsRange == 1..BedsHi

BathRange == 0..BathHi

ParkRange == 0..ParkHi

PageRange == 1..PageCap

Pos(b, ba, p, pg) == [beds |-> b, bath |-> ba, park |-> p, page |-> pg]

Finished == [beds |-> 0, bath |-> 0, park |-> 0, page |-> 0]

FirstPos == Pos(1, 0, 0, 1)

\* The iteration that follows the page loop of combination (b, ba, p):
\* the next park, else the next bath, else the next beds, else the return.
NextCombination(b, ba, p) ==
  IF p + 1 \in ParkRange THEN Pos(b, ba, p + 1, 1)
  ELSE IF ba + 1 \in BathRange THEN Pos(b, ba + 1, 0, 1)
  ELSE IF b + 1 \in BedsRange THEN Pos(b + 1, 0, 0, 1)
  ELSE Finished

\* The iteration that follows page pg when the page loop is not broken.
NextPage(b, ba, p, pg) ==
  IF pg + 1 \in PageRange THEN Pos(b, ba, p, pg + 1)
  ELSE NextCombination(b, ba, p)

\* `"No exact matches" in response_text`
Contains(text) == \E i \in 1..Len(text) : text[i] = NoMatch

\* `if response_text:` None and the empty string are both falsy.
Truthy(r) == ~r.isNone /\ r.text # <<>>

\* Faulty variant: the marker does not break the page loop.
AfterResponse_NoBreak(r) == NextPage(beds, bath, park, page)

\* Faulty variant: a None result breaks the page loop as the marker does.
AfterResponse_NoneBreaks(r) ==
  IF r.isNone \/ (Truthy(r) /\ Contains(r.text))
  THEN NextCombination(beds, bath, park)
  ELSE NextPage(beds, bath, park, page)

\* Lines 82-91: where the loop goes after response r for the current url.
AfterResponse(r) ==
  IF Truthy(r) /\ Contains(r.text)
  THEN NextCombination(beds, bath, park)
  ELSE NextPage(beds, bath, park, page)

\* Faulty variant: every truthy response is appended, the marker page included.
Accumulate_All(list, r) ==
  IF Truthy(r) THEN Append(list, r.text) ELSE list

\* Lines 82-91: the list after response r.
Accumulate(list, r) ==
  IF Truthy(r) /\ ~Contains(r.text) THEN Append(list, r.text) ELSE list

\* The enumerator's handling of the value r that fetch_property_data
\* returned for the current url, up to the next call (or the return).
Handle(r) ==
  LET nxt == AfterResponse(r) IN
  /\ property_html' = Accumulate(property_html, r)
  /\ beds' = nxt.beds /\ bath' = nxt.bath /\ park' = nxt.park
  /\ page' = nxt.page
  /\ epc' = IF nxt = Finished THEN "done" ELSE "get"
  /\ attempt' = 0
  /\ lastUrl' = Pos(beds, bath, park, page)
  /\ lastResult' = r

(***************************************************************************)
(* fetch_property_data: the retry loop.                                    *)
(***************************************************************************)
\* Faulty variant: one attempt too many.
LoopContinues_OffByOne(a, retries) == a <= retries

\* `while attempt < retries`
LoopContinues(a, retries) == a < retries

\* 2**attempt: the base of the backoff delay (the jitter random() * 0.1 is
\* left out).
RECURSIVE Pow2(_)
Pow2(n) == IF n = 0 THEN 1 ELSE 2 * Pow2(n - 1)

BaseWait(a) == Pow2(a)

\* What a step of the enumeration leaves alone.
EnumFrame == UNCHANGED <<running, poolVars, parseVars, persistVars>>

\* The GET about to be issued is the first of a call for a new url.
NewCall == attempt = 0

\* History: the GET issued in this step.
IssueGet ==
  /\ gets' = IF NewCall THEN 1 ELSE gets + 1
  /\ requested' =
       IF ~NewCall THEN requested
       ELSE IF page = 1 THEN <<page>>
       ELSE Append(requested, page)

\* client.get(url) succeeds with a success status: the call returns
\* response.text, and the enumerator handles it.
GetSucceeds ==
  /\ running = "fetch_postcode_data"
  /\ EnumFrame
  /\ epc = "get"
  /\ LoopContinues(attempt, DefaultRetries)
  /\ Len(fetched) < MaxOk
  /\ \E body \in Bodies :
       /\ IssueGet
       /\ fetched' = Append(fetched, body)
       /\ waits' = IF NewCall THEN <<>> ELSE waits
       /\ Handle(Some(body))

\* client.get(url) raises httpx.RequestError, or raise_for_status raises
\* httpx.HTTPStatusError: attempt += 1, sleep, and either loop again or
\* fall out of the loop and return None, which the enumerator handles.
GetFails ==
  /\ running = "fetch_postcode_data"
  /\ EnumFrame
  /\ epc = "get"
  /\ LoopContinues(attempt, DefaultRetries)
  /\ IssueGet
  /\ waits' = Append(IF NewCall THEN <<>> ELSE waits, BaseWait(attempt + 1))
  /\ fetched' = fetched
  /\ IF LoopContinues(attempt + 1, DefaultRetries)
     THEN /\ attempt' = attempt + 1
          /\ UNCHANGED <<beds, bath, park, page, epc, property_html,
                         lastUrl, lastResult>>
     ELSE Handle(None)

\* client.get(url) raises something else (not a RequestError nor an
\* HTTPStatusError): nothing catches it, the task ends with the error.
GetCrashes ==
  /\ running = "fetch_postcode_data"
  /\ EnumFrame
  /\ epc = "get"
  /\ LoopContinues(attempt, DefaultRetries)
  /\ IssueGet
  /\ epc' = "raised"
  /\ UNCHANGED <<beds, bath, park, page, attempt, property_html,
                 fetched, waits, lastUrl, lastResult>>


EnumInit ==
  /\ beds = FirstPos.beds /\ bath = FirstPos.bath /\ park = FirstPos.park
  /\ page = FirstPos.page
  /\ epc = "get"
  /\ attempt = 0
  /\ property_html = <<>>
  /\ fetched = <<>>
  /\ gets = 0
  /\ waits = <<>>
  /\ lastUrl = Finished
  /\ lastResult = NoCall
  /\ requested = <<>>

(***************************************************************************)
(* Domain_Scraper.main: the coordinator and its worker pool. A task is one *)
(* call fetch_postcode_data(postcode, client) run by a worker thread; here *)
(* it is seen from outside, by what it does to its local list and how it   *)
(* ends. Thread 0 is the coordinating (main) thread, 1..threads the pool's. *)
(***************************************************************************)
\* The head of the fixed list of postal codes.
SydneyPostcodes == <<2000, 2006, 2007, 2008, 2009, 2010>>

Postcodes == SubSeq(SydneyPostcodes, 1, NumPostcodes)

Tasks == 1..NumPostcodes

MainThread == 0

\* Faulty variant: one worker thread per postal code.
max_workers_PerPostcode == NumPostcodes

\* ThreadPoolExecutor(max_workers=10)
max_workers == MaxWorkers

\* What a step of the coordinator or of a worker leaves alone.
PoolFrame == UNCHANGED <<running, enumVars, parseVars, persistVars>>

Completed(t) == fstate[t] \in {"finished", "raised"}

Idle(w) == \A t \in Tasks : ~(fstate[t] = "running" /\ runner[t] = w)

\* executor.submit(fetch_postcode_data, postcode, client), for the next
\* postcode of the list: the work item is queued, and the executor starts
\* another worker thread while it has fewer than max_workers. After the
\* last postcode the list comprehension is complete.
Submit ==
  /\ running = "Domain_Scraper.main"
  /\ PoolFrame
  /\ cpc = "submit"
  /\ Len(futures) < Len(Postcodes)
  /\ LET t == Len(futures) + 1 IN
       /\ futures' = Append(futures, Postcodes[t])
       /\ fstate' = [fstate EXCEPT ![t] = "queued"]
       /\ threads' = IF threads < max_workers THEN threads + 1 ELSE threads
       /\ cpc' = IF t = Len(Postcodes) THEN "collect" ELSE "submit"
  /\ UNCHANGED <<runner, tlocal, yielded, out, csv, outWriters, localWriters>>

\* An idle worker thread takes the oldest queued work item and calls
\* fetch_postcode_data, which starts with an empty local list.
StartTask ==
  /\ running = "Domain_Scraper.main"
  /\ PoolFrame
  /\ \E w \in 1..threads, t \in Tasks :
       /\ Idle(w)
       /\ fstate[t] = "queued"
       /\ \A u \in Tasks : u < t => fstate[u] # "queued"
       /\ fstate' = [fstate EXCEPT ![t] = "running"]
       /\ runner' = [runner EXCEPT ![t] = w]
  /\ UNCHANGED <<cpc, futures, threads, tlocal, yielded, out, csv,
                 outWriters, localWriters>>

\* The page a task keeps as its k-th.
PageOf(t, k) == <<Postcodes[t], k>>

\* Faulty variant: the workers append to one list shared with main.
TaskAppend_Shared(t) ==
  /\ out' = Append(out, PageOf(t, Len(out) + 1))
  /\ outWriters' = outWriters \cup {runner[t]}
  /\ UNCHANGED <<tlocal, localWriters>>

\* property_html.append(response_text) in fetch_postcode_data: the list is
\* the one the call created.
TaskAppend(t) ==
  /\ tlocal' = [tlocal EXCEPT ![t] = Append(@, PageOf(t, Len(@) + 1))]
  /\ localWriters' = [localWriters EXCEPT ![t] = @ \cup {runner[t]}]
  /\ UNCHANGED <<out, outWriters>>

\* A running task keeps one more page.
TaskKeepsPage ==
  /\ running = "Domain_Scraper.main"
  /\ PoolFrame
  /\ \E t \in Tasks :
       /\ fstate[t] = "running"
       /\ Len(tlocal[t]) < MaxTaskPages
       /\ TaskAppend(t)
  /\ UNCHANGED <<cpc, futures, fstate, threads, runner, yielded, csv>>

\* `return property_html`: the future holds the task's list.
TaskReturns ==
  /\ running = "Domain_Scraper.main"
  /\ PoolFrame
  /\ \E t \in Tasks :
       /\ fstate[t] = "running"
       /\ fstate' = [fstate EXCEPT ![t] = "finished"]
  /\ UNCHANGED <<cpc, futures, threads, runner, tlocal, yielded, out, csv,
                 outWriters, localWriters>>

\* The task ends with an error nothing in it catches: the future holds it.
TaskRaises ==
  /\ running = "Domain_Scraper.main"
  /\ PoolFrame
  /\ \E t \in Tasks :
       /\ fstate[t] = "running"
       /\ fstate' = [fstate EXCEPT ![t] = "raised"]
  /\ UNCHANGED <<cpc, futures, threads, runner, tlocal, yielded, out, csv,
                 outWriters, localWriters>>

\* Faulty variant: the result replaces the collection.
Extend_Replace(list, result) == result

\* property_html.extend(future.result())
Extend(list, result) == list \o result

\* as_completed yields a completed future that it has not yielded, and
\* main extends its list with the result; after the last one main leaves
\* the with blocks, every task being complete.
Collect ==
  /\ running = "Domain_Scraper.main"
  /\ PoolFrame
  /\ cpc = "collect"
  /\ \E t \in Tasks \ yielded :
       /\ fstate[t] = "finished"
       /\ yielded' = yielded \cup {t}
       /\ out' = Extend(out, tlocal[t])
       /\ outWriters' = outWriters \cup {MainThread}
       /\ cpc' = IF yielded' = Tasks THEN "write" ELSE "collect"
  /\ UNCHANGED <<futures, fstate, threads, runner, tlocal, csv, localWriters>>

\* Faulty variant: main catches the error of the task and goes on collecting.
CollectRaises_Swallow ==
  /\ running = "Domain_Scraper.main"
  /\ PoolFrame
  /\ cpc = "collect"
  /\ \E t \in Tasks \ yielded :
       /\ fstate[t] = "raised"
       /\ yielded' = yielded \cup {t}
       /\ cpc' = IF yielded' = Tasks THEN "write" ELSE "collect"
  /\ UNCHANGED <<futures, fstate, threads, runner, tlocal, out, csv,
                 outWriters, localWriters>>

\* as_completed yields a future that holds an error: future.result() raises
\* it in main, which leaves the with blocks with the error.
CollectRaises ==
  /\ running = "Domain_Scraper.main"
  /\ PoolFrame
  /\ cpc = "collect"
  /\ \E t \in Tasks \ yielded :
       /\ fstate[t] = "raised"
       /\ yielded' = yielded \cup {t}
       /\ cpc' = "unwind"
  /\ UNCHANGED <<futures, fstate, threads, runner, tlocal, out, csv,
                 outWriters, localWriters>>

\* The executor's __exit__ is shutdown(wait=True): it returns when every
\* submitted task is complete, and the error leaves main.
Unwind ==
  /\ running = "Domain_Scraper.main"
  /\ PoolFrame
  /\ cpc = "unwind"
  /\ \A t \in Tasks : Completed(t)
  /\ cpc' = "failed"
  /\ UNCHANGED <<futures, fstate, threads, runner, tlocal, yielded, out, csv,
                 outWriters, localWriters>>

\* The DataFrame of property_html is written to the staging file.
WriteCsv ==
  /\ running = "Domain_Scraper.main"
  /\ PoolFrame
  /\ cpc = "write"
  /\ csv' = [written |-> TRUE, rows |-> out]
  /\ cpc' = "returned"
  /\ UNCHANGED <<futures, fstate, threads, runner, tlocal, yielded, out,
                 outWriters, localWriters>>

PoolInit ==
  /\ cpc = "submit"
  /\ futures = <<>>
  /\ fstate = [t \in Tasks |-> "unsubmitted"]
  /\ threads = 0
  /\ runner = [t \in Tasks |-> 0]
  /\ tlocal = [t \in Tasks |-> <<>>]
  /\ yielded = {}
  /\ out = <<>>
  /\ csv = [written |-> FALSE, rows |-> <<>>]
  /\ outWriters = {}
  /\ localWriters = [t \in Tasks |-> {}]

(***************************************************************************)
(* Domain_Parser: strings. A string is a sequence of characters, each a    *)
(* one-character string; three characters have names: ACirc (the artifact  *)
(* that parse_address removes), Sup2 (superscript two, as in "m2" squared: *)
(* a digit for str.isdigit, but neither \d nor accepted by int) and LF.    *)
(***************************************************************************)
ACirc == "A^"

Sup2 == "^2"

LF == "LF"

Decimals == {"0", "1", "2", "3", "4", "5", "6", "7", "8", "9"}

Letters == {"a", "b", "d", "e", "g", "h", "i", "k", "l", "m", "n", "o", "r",
            "s", "t", "u", "A", "B", "J", "K", "P", "S", "U", ACirc}

\* \d, and the characters int() reads.
IsDecimal(c) == c \in Decimals

\* The characters of which str.isdigit is true.
IsDigitChar(c) == c \in Decimals \cup {Sup2}

\* \w
IsWordChar(c) == c \in Decimals \cup Letters \cup {Sup2, "_"}

\* Whitespace, for strip and split.
IsSpace(c) == c \in {" ", LF}

\* str.isdigit()
isdigit(str) == str # <<>> /\ \A i \in 1..Len(str) : IsDigitChar(str[i])

\* str.replace(c, "") for a one-character c
RemoveChar(str, c) == SelectSeq(str, LAMBDA x : x # c)

SetMin(S) == CHOOSE x \in S : \A y \in S : x <= y

SetMax(S) == CHOOSE x \in S : \A y \in S : x >= y

\* str.strip()
Strip(str) ==
  LET keep == {i \in 1..Len(str) : ~IsSpace(str[i])} IN
  IF keep = {} THEN <<>> ELSE SubSeq(str, SetMin(keep), SetMax(keep))

\* `sub in str`
IsIn(sub, str) ==
  \E i \in 1..(Len(str) - Len(sub) + 1) : SubSeq(str, i, i + Len(sub) - 1) = sub

\* str.split()[0], for a str that is not all whitespace
FirstToken(str) ==
  LET first == SetMin({i \in 1..Len(str) : ~IsSpace(str[i])})
      stops == {i \in first..Len(str) : IsSpace(str[i])}
  IN SubSeq(str, first, IF stops = {} THEN Len(str) ELSE SetMin(stops) - 1)

DigitValue(c) ==
  CASE c = "0" -> 0 [] c = "1" -> 1 [] c = "2" -> 2 [] c = "3" -> 3
    [] c = "4" -> 4 [] c = "5" -> 5 [] c = "6" -> 6 [] c = "7" -> 7
    [] c = "8" -> 8 [] c = "9" -> 9

RECURSIVE DecimalValue(_)
DecimalValue(str) ==
  IF str = <<>> THEN 0
  ELSE 10 * DecimalValue(SubSeq(str, 1, Len(str) - 1)) + DigitValue(str[Len(str)])

\* An optional integer, and int(str): a value, or ValueError when str has a
\* character that is not a decimal.
NoInt == [isNone |-> TRUE, value |-> 0]

SomeInt(n) == [isNone |-> FALSE, value |-> n]

IntRaises(str) == str = <<>> \/ \E i \in 1..Len(str) : ~IsDecimal(str[i])

(***************************************************************************)
(* parse_address                                                           *)
(***************************************************************************)
\* address[-4:]
LastFour(address) ==
  IF Len(address) <= 4 THEN address
  ELSE SubSeq(address, Len(address) - 3, Len(address))

\* Where a match of \b\d{4}\b$ may end: at the end of the string, or just
\* before a line feed that ends it.
DollarEnds(str) ==
  {Len(str)} \cup (IF str # <<>> /\ str[Len(str)] = LF THEN {Len(str) - 1} ELSE {})

\* \b\d{4}\b$ matches str[e-3..e].
PostcodeMatchEnds(str, e) ==
  /\ e \in DollarEnds(str)
  /\ e >= 4
  /\ \A i \in (e - 3)..e : IsDecimal(str[i])
  /\ e = 4 \/ ~IsWordChar(str[e - 4])
  /\ e = Len(str) \/ ~IsWordChar(str[e + 1])

\* postcode_regex.search(address): the match, or None
PostcodeSearch(str) ==
  LET ends == {e \in DollarEnds(str) : PostcodeMatchEnds(str, e)} IN
  IF ends = {} THEN None
  ELSE Some(SubSeq(str, SetMin(ends) - 3, SetMin(ends)))

parse_address(address) ==
  LET stripped == RemoveChar(address, ACirc)
      last_four_chars == LastFour(stripped)
      postcode_match == PostcodeSearch(stripped)
  IN [address |-> stripped,
      postcode |-> IF isdigit(last_four_chars) THEN Some(last_four_chars)
                   ELSE IF ~postcode_match.isNone THEN postcode_match
                   ELSE None]

(***************************************************************************)
(* parse_price. Its argument here is what the selector finds: the text of  *)
(* the price element, or None when there is no such element. The result is *)
(* an optional integer, or the ValueError of int().                        *)
(***************************************************************************)
Returned(v) == [raised |-> FALSE, value |-> v]

Raised == [raised |-> TRUE, value |-> NoInt]

\* int(token) if token.isdigit() else None
IntIfDigits(token) ==
  IF isdigit(token)
  THEN IF IntRaises(token) THEN Raised ELSE Returned(SomeInt(DecimalValue(token)))
  ELSE Returned(NoInt)

parse_price(price_elem) ==
  IF price_elem.isNone THEN Returned(NoInt)
  ELSE LET price_text == Strip(RemoveChar(RemoveChar(price_elem.text, "$"), ","))
       IN IntIfDigits(price_text)

(***************************************************************************)
(* parse_sale_info                                                         *)
(***************************************************************************)
\* \d{1,2} \w{3} \d{4} matches at i with n leading digits.
DateAt(str, i, n) ==
  /\ i + n + 8 <= Len(str)
  /\ \A k \in i..(i + n - 1) : IsDecimal(str[k])
  /\ str[i + n] = " "
  /\ \A k \in (i + n + 1)..(i + n + 3) : IsWordChar(str[k])
  /\ str[i + n + 4] = " "
  /\ \A k \in (i + n + 5)..(i + n + 8) : IsDecimal(str[k])

\* sale_date_regex.search(text): the leftmost match, two leading digits
\* tried before one.
DateSearch(str) ==
  LET starts == {i \in 1..Len(str) : DateAt(str, i, 2) \/ DateAt(str, i, 1)} IN
  IF starts = {} THEN None
  ELSE LET i == SetMin(starts)
           n == IF DateAt(str, i, 2) THEN 2 ELSE 1
       IN Some(SubSeq(str, i, i + n + 8))

\* str.replace(sub, "") for a sub that is not empty
RECURSIVE RemoveAll(_, _)
RemoveAll(str, sub) ==
  IF Len(str) < Len(sub) THEN str
  ELSE IF SubSeq(str, 1, Len(sub)) = sub
  THEN RemoveAll(SubSeq(str, Len(sub) + 1, Len(str)), sub)
  ELSE <<str[1]>> \o RemoveAll(SubSeq(str, 2, Len(str)), sub)

parse_sale_info(sale_info_elem) ==
  IF sale_info_elem.isNone THEN [sale_type |-> None, sale_date |-> None]
  ELSE LET sale_info_text == Strip(sale_info_elem.text)
           sale_date_match == DateSearch(sale_info_text)
       IN IF ~sale_date_match.isNone
          THEN [sale_type |->
                  Some(Strip(RemoveAll(sale_info_text, sale_date_match.text))),
                sale_date |-> sale_date_match]
          ELSE [sale_type |-> Some(sale_info_text), sale_date |-> None]

(***************************************************************************)
(* parse_property_details. Its argument is the texts of the feature        *)
(* elements under the first features wrapper (none without a wrapper).     *)
(***************************************************************************)
NoDetails ==
  [raised |-> FALSE, bedrooms |-> NoInt, baths |-> NoInt, parking |-> NoInt,
   area |-> NoInt]

\* re.search(r"\d+", text): the first run of decimals, or None
DigitRun(str) ==
  LET starts == {i \in 1..Len(str) : IsDecimal(str[i])} IN
  IF starts = {} THEN None
  ELSE LET i == SetMin(starts)
           stops == {k \in i..Len(str) : ~IsDecimal(str[k])}
       IN Some(SubSeq(str, i, IF stops = {} THEN Len(str) ELSE SetMin(stops) - 1))

\* One iteration of the loop over the feature elements.
FeatureStep(d, feature_text) ==
  IF d.raised THEN d
  ELSE IF IsIn(<<"B", "e", "d", "s">>, feature_text)
  THEN LET v == IntIfDigits(FirstToken(feature_text)) IN
       IF v.raised THEN [d EXCEPT !.raised = TRUE]
       ELSE [d EXCEPT !.bedrooms = v.value]
  ELSE IF IsIn(<<"B", "a", "t", "h">>, feature_text)
  THEN LET v == IntIfDigits(FirstToken(feature_text)) IN
       IF v.raised THEN [d EXCEPT !.raised = TRUE]
       ELSE [d EXCEPT !.baths = v.value]
  ELSE IF IsIn(<<"P", "a", "r", "k", "i", "n", "g">>, feature_text)
  THEN LET v == IntIfDigits(FirstToken(feature_text)) IN
       IF v.raised THEN [d EXCEPT !.raised = TRUE]
       ELSE [d EXCEPT !.parking = v.value]
  ELSE IF IsIn(<<"m", Sup2>>, feature_text)
  THEN LET area_search == DigitRun(feature_text) IN
       [d EXCEPT !.area = IF area_search.isNone THEN NoInt
                          ELSE SomeInt(DecimalValue(area_search.text))]
  ELSE d

RECURSIVE FeatureLoop(_, _)
FeatureLoop(d, feature_elements) ==
  IF feature_elements = <<>> THEN d
  ELSE FeatureLoop(FeatureStep(d, Head(feature_elements)), Tail(feature_elements))

parse_property_details(feature_elements) == FeatureLoop(NoDetails, feature_elements)

(***************************************************************************)
(* parse_sales_page. Its argument is the address anchor the selector finds.*)
(***************************************************************************)
NotAvailable == <<"N", "/", "A">>

\* attributes.get("href", "N/A")
parse_sales_page(anchor) ==
  IF ~anchor.present THEN None
  ELSE IF anchor.href.isNone THEN Some(NotAvailable)
  ELSE anchor.href

(***************************************************************************)
(* parse_html. A page is a sequence of property cards, each with the       *)
(* elements the selectors look for: the sale-info span, the price          *)
(* paragraph, the address anchor (its href and its h2 heading) and the     *)
(* features wrapper with its feature elements. css_first finds the first   *)
(* element of the page that matches, whichever card holds it. html_content *)
(* may also be something that is not a string (NotAString): HTMLParser     *)
(* raises TypeError for it.                                                *)
(***************************************************************************)
NotAString == [isString |-> FALSE, cards |-> <<>>]

\* A page of markup: a string that HTMLParser parses into these cards.
Page(cards) == [isString |-> TRUE, cards |-> cards]

NoAnchor == [present |-> FALSE, href |-> None, h2 |-> None]

Anchor(href, h2) == [present |-> TRUE, href |-> href, h2 |-> h2]

NoFeatures == [present |-> FALSE, chips |-> <<>>]

Features(chips) == [present |-> TRUE, chips |-> chips]

Card(sale, price, anchor, features) ==
  [sale |-> sale, price |-> price, anchor |-> anchor, features |-> features]

\* css_first(selector): the element of the first card that has one.
FirstWith(html, Has(_)) ==
  LET hits == {i \in 1..Len(html) : Has(html[i])} IN
  IF hits = {} THEN 0 ELSE SetMin(hits)

SaleInfoElem(html) ==
  LET i == FirstWith(html, LAMBDA c : ~c.sale.isNone) IN
  IF i = 0 THEN None ELSE html[i].sale

PriceElem(html) ==
  LET i == FirstWith(html, LAMBDA c : ~c.price.isNone) IN
  IF i = 0 THEN None ELSE html[i].price

AddressElem(html) ==
  LET i == FirstWith(html, LAMBDA c : c.anchor.present /\ ~c.anchor.h2.isNone) IN
  IF i = 0 THEN None ELSE html[i].anchor.h2

FeatureElements(html) ==
  LET i == FirstWith(html, LAMBDA c : c.features.present) IN
  IF i = 0 THEN <<>> ELSE html[i].features.chips

SalesPageElem(html) ==
  LET i == FirstWith(html, LAMBDA c : c.anchor.present) IN
  IF i = 0 THEN NoAnchor ELSE html[i].anchor

\* extracted_data as initialised: every field None.
AllNone ==
  [sale_type |-> None, sale_date |-> None, price |-> NoInt, address |-> None,
   postcode |-> None, bedrooms |-> NoInt, baths |-> NoInt, parking |-> NoInt,
   area |-> NoInt, sales_page_href |-> None]

\* What parse_html does: raises, or returns a record; error says whether
\* the except branch ran.
HtmlRaised == [raised |-> TRUE, error |-> FALSE, data |-> AllNone, records |-> 0]

HtmlReturned(error, data) ==
  [raised |-> FALSE, error |-> error, data |-> data, records |-> 1]

\* Faulty variant: the except branch resets the record.
AfterError_Reset(data) == AllNone

\* The except branch: the message is printed, extracted_data is left as
\* it is.
AfterError(data) == data

parse_html(html_content) ==
  IF ~html_content.isString THEN HtmlRaised
  ELSE
    LET html == html_content.cards
        sale == parse_sale_info(SaleInfoElem(html))
        d1 == [AllNone EXCEPT !.sale_type = sale.sale_type,
                              !.sale_date = sale.sale_date]
        price == parse_price(PriceElem(html))
        d2 == [d1 EXCEPT !.price = price.value]
        address_elem == AddressElem(html)
        parsed == parse_address(address_elem.text)
        d3 == IF address_elem.isNone THEN d2
              ELSE [d2 EXCEPT !.address = Some(parsed.address),
                              !.postcode = parsed.postcode]
        details == parse_property_details(FeatureElements(html))
        d4 == [d3 EXCEPT !.bedrooms = details.bedrooms, !.baths = details.baths,
                         !.parking = details.parking, !.area = details.area]
        d5 == [d4 EXCEPT !.sales_page_href = parse_sales_page(SalesPageElem(html))]
    IN IF price.raised THEN HtmlReturned(TRUE, AfterError(d1))
       ELSE IF details.raised THEN HtmlReturned(TRUE, AfterError(d3))
       ELSE HtmlReturned(FALSE, d5)

(***************************************************************************)
(* The inputs of the extraction functions.                                 *)
(***************************************************************************)
AddrChars == {"2", "0", "a", " ", LF, ACirc}

PriceChars == {"1", "0", "$", ",", " ", "a", Sup2}

\* The strings over an alphabet, up to a length.
RECURSIVE StringsUpTo(_, _)
StringsUpTo(chars, n) ==
  IF n = 0 THEN {<<>>}
  ELSE LET shorter == StringsUpTo(chars, n - 1) IN
       shorter \cup {Append(str, c) : str \in shorter, c \in chars}

Addresses == StringsUpTo(AddrChars, MaxAddrLen)

PriceElems == {None} \cup {Some(t) : t \in StringsUpTo(PriceChars, MaxPriceLen)}

\* "Sold 2 Jan 2023", "$1,250", "Ultimo 2007", "3 Beds" ...: a full card.
CardSold ==
  Card(Some(<<"S", "o", "l", "d", " ", "2", " ", "J", "a", "n", " ", "2", "0",
      "2", "3">>), Some(<<"$", "1", ",", "2", "5", "0">>),
       Anchor(Some(<<"/", "a">>), Some(<<"U", "l", "t", "i", "m", "o", " ", "2", "0", "0", "7">>)),
       Features(<<<<"3", " ", "B", "e", "d", "s">>, <<"2", " ", "B", "a", "t",
           "h">>, <<"1", " ", "P", "a", "r", "k", "i", "n", "g">>, <<"1", "2",
           "0", "m", Sup2>>>>))

\* "Auction", "Ask Agent", "Kent St", no href, no features wrapper.
CardAuction ==
  Card(Some(<<"A", "u", "c", "t", "i", "o", "n">>), Some(<<"A", "s", "k", " ",
      "A", "g", "e", "n", "t">>),
       Anchor(None, Some(<<"K", "e", "n", "t", " ", "S", "t">>)), NoFeatures)

\* "Sold", a price "$2" followed by superscript two, "Glebe 2037", "4 Beds".
CardFootnote ==
  Card(Some(<<"S", "o", "l", "d">>), Some(<<"$", "2", Sup2>>),
       Anchor(Some(<<"/", "b">>), Some(<<"G", "l", "e", "b", "e", " ", "2", "0", "3", "7">>)),
       Features(<<<<"4", " ", "B", "e", "d", "s">>>>))

\* "Sold", "$5", "Kent 2000", and a feature "2" superscript two " Beds".
CardChip ==
  Card(Some(<<"S", "o", "l", "d">>), Some(<<"$", "5">>),
       Anchor(Some(<<"/", "c">>), Some(<<"K", "e", "n", "t", " ", "2", "0", "0", "0">>)),
       Features(<<<<"2", Sup2, " ", "B", "e", "d", "s">>>>))

\* A card with none of the elements.
CardBare == Card(None, None, NoAnchor, NoFeatures)

Cards == {CardSold, CardAuction, CardFootnote, CardChip, CardBare}

RECURSIVE PagesUpTo(_)
PagesUpTo(n) ==
  IF n = 0 THEN {<<>>}
  ELSE LET shorter == PagesUpTo(n - 1) IN
       shorter \cup {Append(pg, c) : pg \in shorter, c \in Cards}

HtmlContents == {NotAString} \cup {Page(cards) : cards \in PagesUpTo(MaxCards)}

(***************************************************************************)
(* One call of an extraction function.                                     *)
(***************************************************************************)
ParseFrame == UNCHANGED <<running, enumVars, poolVars, persistVars, fn, arg>>

CallParseAddress ==
  /\ running = "Domain_Parser" /\ ppc = "call" /\ fn = "parse_address"
  /\ ret' = parse_address(arg)
  /\ ppc' = "done"
  /\ ParseFrame

CallParsePrice ==
  /\ running = "Domain_Parser" /\ ppc = "call" /\ fn = "parse_price"
  /\ ret' = parse_price(arg)
  /\ ppc' = "done"
  /\ ParseFrame

CallParseHtml ==
  /\ running = "Domain_Parser" /\ ppc = "call" /\ fn = "parse_html"
  /\ ret' = parse_html(arg)
  /\ ppc' = "done"
  /\ ParseFrame

NoRet == [raised |-> FALSE]

\* No extraction function is being called.
ParseIdle == fn = "none" /\ arg = <<>> /\ ret = NoRet /\ ppc = "done"

ParseInit ==
  /\ ppc = "call"
  /\ ret = NoRet
  /\ \/ fn = "parse_address" /\ arg \in Addresses
     \/ fn = "parse_price" /\ arg \in PriceElems
     \/ fn = "parse_html" /\ arg \in HtmlContents

(***************************************************************************)
(* Domain_Parser.main: the persistence run. The staging file is read in    *)
(* chunks; every row of a chunk is parsed and appended to all_data, the    *)
(* list is inserted and committed, and then cleared. An error that leaves  *)
(* main ends the run; what the open transaction inserted is never          *)
(* committed.                                                              *)
(***************************************************************************)
\* The rows a staging file may hold: pages of no, one and two cards, and a
\* cell that read_csv gives back as NaN, not as a string.
StagedRows ==
  {Page(<<>>), Page(<<CardSold>>), Page(<<CardAuction, CardSold>>), NotAString}

RECURSIVE FilesUpTo(_)
FilesUpTo(n) ==
  IF n = 0 THEN {<<>>}
  ELSE LET shorter == FilesUpTo(n - 1) IN
       shorter \cup {Append(f, r) : f \in shorter, r \in StagedRows}

PersistFrame == UNCHANGED <<running, enumVars, poolVars, parseVars, staged>>

\* sqlite3.connect, create_table, connection.commit()
Connect ==
  /\ running = "Domain_Parser.main" /\ mpc = "connect"
  /\ mpc' = "read"
  /\ UNCHANGED <<nread, chunk, all_data, txn, table, recordsOf, commits>>
  /\ PersistFrame

\* The chunk iterator gives the next chunk_size rows of the file.
ReadChunk ==
  /\ running = "Domain_Parser.main" /\ mpc = "read"
  /\ nread < Len(staged)
  /\ LET last == IF nread + ChunkSize < Len(staged)
                 THEN nread + ChunkSize ELSE Len(staged)
     IN /\ chunk' = SubSeq(staged, nread + 1, last)
        /\ nread' = last
  /\ mpc' = "rows"
  /\ UNCHANGED <<all_data, txn, table, recordsOf, commits>>
  /\ PersistFrame

\* The chunk iterator is exhausted: cursor.close(), connection.close().
Close ==
  /\ running = "Domain_Parser.main" /\ mpc = "read"
  /\ nread = Len(staged)
  /\ mpc' = "closed"
  /\ UNCHANGED <<nread, chunk, all_data, txn, table, recordsOf, commits>>
  /\ PersistFrame

\* all_data.append(extracted_data): the records one row adds.
RecordsOf(html_content, parsed) == <<parsed.data>>

\* One iteration of the loop over the rows of the chunk: parse_html and the
\* append. An error that parse_html raises leaves main.
ParseRow ==
  /\ running = "Domain_Parser.main" /\ mpc = "rows"
  /\ chunk # <<>>
  /\ LET parsed == parse_html(Head(chunk)) IN
       IF parsed.raised
       THEN /\ mpc' = "aborted"
            /\ UNCHANGED <<chunk, all_data, recordsOf>>
       ELSE /\ all_data' = all_data \o RecordsOf(Head(chunk), parsed)
            /\ recordsOf' = Append(recordsOf, Len(all_data') - Len(all_data))
            /\ chunk' = Tail(chunk)
            /\ mpc' = IF chunk' = <<>> THEN "insert" ELSE "rows"
  /\ UNCHANGED <<nread, txn, table, commits>>
  /\ PersistFrame

\* insert_data(cursor, all_data): executemany inserts every record, in the
\* transaction that the first INSERT opens.
InsertData ==
  /\ running = "Domain_Parser.main" /\ mpc = "insert"
  /\ txn' = txn \o all_data
  /\ mpc' = "commit"
  /\ UNCHANGED <<nread, chunk, all_data, table, recordsOf, commits>>
  /\ PersistFrame

\* Faulty variant: what the open transaction inserted becomes visible.
Abandon_Autocommit(tbl, t) == tbl \o t

\* The connection of sqlite3.connect (default isolation level) is dropped
\* with a transaction open: the transaction is rolled back, the committed
\* rows stay.
Abandon(tbl, t) == tbl

\* executemany raises after k of the records are inserted: the error leaves
\* main, and the transaction is never committed.
InsertFails ==
  /\ running = "Domain_Parser.main" /\ mpc = "insert"
  /\ \E k \in 0..(Len(all_data) - 1) :
       /\ txn' = txn \o SubSeq(all_data, 1, k)
       /\ table' = Abandon(table, txn')
  /\ mpc' = "aborted"
  /\ UNCHANGED <<nread, chunk, all_data, recordsOf, commits>>
  /\ PersistFrame

\* Faulty variant: the list is not cleared after the commit.
AfterCommit_Keep(list) == list

\* all_data.clear()
AfterCommit(list) == <<>>

\* connection.commit(), the progress message, all_data.clear()
Commit ==
  /\ running = "Domain_Parser.main" /\ mpc = "commit"
  /\ table' = table \o txn
  /\ txn' = <<>>
  /\ commits' = Append(commits, [read |-> nread, rows |-> Len(table')])
  /\ all_data' = AfterCommit(all_data)
  /\ mpc' = "read"
  /\ UNCHANGED <<nread, chunk, recordsOf>>
  /\ PersistFrame

PersistIdle ==
  /\ mpc = "closed" /\ staged = <<>> /\ nread = 0 /\ chunk = <<>>
  /\ all_data = <<>> /\ txn = <<>> /\ table = <<>>
  /\ recordsOf = <<>> /\ commits = <<>>

PersistInit ==
  /\ mpc = "connect"
  /\ staged \in FilesUpTo(MaxRows)
  /\ nread = 0 /\ chunk = <<>>
  /\ all_data = <<>> /\ txn = <<>> /\ table = <<>>
  /\ recordsOf = <<>> /\ commits = <<>>

(***************************************************************************)
(* The specifications.                                                     *)
(***************************************************************************)
EnumStart ==
  running = "fetch_postcode_data" /\ EnumInit /\ PoolInit /\ ParseIdle
  /\ PersistIdle

EnumNext == GetSucceeds \/ GetFails \/ GetCrashes

SpecEnum == EnumStart /\ [][EnumNext]_vars

PoolStart ==
  running = "Domain_Scraper.main" /\ EnumInit /\ PoolInit /\ ParseIdle
  /\ PersistIdle

PoolNext ==
  \/ Submit \/ StartTask \/ TaskKeepsPage \/ TaskReturns \/ TaskRaises
  \/ Collect \/ CollectRaises \/ Unwind \/ WriteCsv

SpecPool == PoolStart /\ [][PoolNext]_vars

ParseStart ==
  running = "Domain_Parser" /\ EnumInit /\ PoolInit /\ ParseInit
  /\ PersistIdle

ParseNext == CallParseAddress \/ CallParsePrice \/ CallParseHtml

SpecParse == ParseStart /\ [][ParseNext]_vars

PersistStart ==
  running = "Domain_Parser.main" /\ EnumInit /\ PoolInit /\ ParseIdle
  /\ PersistInit

PersistNext ==
  \/ Connect \/ ReadChunk \/ Close \/ ParseRow \/ InsertData \/ InsertFails
  \/ Commit

SpecPersist == PersistStart /\ [][PersistNext]_vars

\* Any one part of the pipeline.
Init == EnumStart \/ PoolStart \/ ParseStart \/ PersistStart

Next == EnumNext \/ PoolNext \/ ParseNext \/ PersistNext

Spec == Init /\ [][Next]_vars

(***************************************************************************)
(* Claims about the enumerator and the fetch client (SpecEnum).            *)
(***************************************************************************)
Combos == BedsRange \X BathRange \X ParkRange

\* The enumeration order of the combinations: beds, then bath, then park.
ComboLess(c, d) ==
  \/ c[1] < d[1]
  \/ c[1] = d[1] /\ c[2] < d[2]
  \/ c[1] = d[1] /\ c[2] = d[2] /\ c[3] < d[3]

ComboAfter(c) == {d \in Combos : ComboLess(c, d)}

\* d is the combination that follows c in enumeration order.
IsNextCombo(c, d) ==
  /\ d \in ComboAfter(c)
  /\ \A e \in ComboAfter(c) : e = d \/ ComboLess(d, e)

CurCombo == <<beds, bath, park>>

LastCombo == <<lastUrl.beds, lastUrl.bath, lastUrl.park>>

\* A request (combination, page) comes before another one.
UrlLess(c, pg, d, qg) == ComboLess(c, d) \/ (c = d /\ pg < qg)

\* A call has returned and no GET of the next call has been issued.
BetweenCalls == epc \in {"get", "done"} /\ attempt = 0 /\ lastResult # NoCall

MarkerSeen == BetweenCalls /\ ~lastResult.isNone /\ Contains(lastResult.text)

\* The state after the marker page: at page 1 of the next combination, or
\* returned when there is none.
C1_AfterMarker ==
  MarkerSeen =>
    IF ComboAfter(LastCombo) = {}
    THEN epc = "done"
    ELSE epc = "get" /\ page = 1 /\ IsNextCombo(LastCombo, CurCombo)

\* The url requested changes only to a later one in enumeration order.
C1_RequestsAdvance ==
  (epc' # "done" /\ <<CurCombo, page>>' # <<CurCombo, page>>)
    => UrlLess(CurCombo, page, CurCombo', page')

\* C1: once a fetched page N of a combination contains the no-results
\* marker, the next request (if any) is page 1 of the next combination in
\* enumeration order, and, requests only ever moving forward in that order,
\* no page > N of the combination is requested again.
C1_MarkerEndsCombination == [](C1_AfterMarker) /\ [][C1_RequestsAdvance]_vars

\* A marker page of combination (1, 0, ParkHi) was fetched at a page > 1 and
\* the enumeration went on to the next bath value.
C1_Witness ==
  /\ MarkerSeen /\ lastUrl.page > 1 /\ lastUrl.park = ParkHi
  /\ epc = "get" /\ park = 0 /\ bath = lastUrl.bath + 1

\* C2: a None result never stops paging: the pages requested for a
\* combination are 1, 2, ... in increasing order, never above 49, and when
\* the combination ended without the marker they are exactly 1..49.
C2_NoneNeverStopsPaging ==
  /\ \A i \in 1..Len(requested) : requested[i] = i
  /\ Len(requested) <= 49
  /\ epc = "get" => page \in 1..49
  /\ (BetweenCalls /\ lastResult.isNone /\ lastUrl.page < 49)
       => epc = "get" /\ CurCombo = LastCombo /\ page = lastUrl.page + 1
  /\ (BetweenCalls /\ ~MarkerSeen /\ (epc = "done" \/ CurCombo # LastCombo))
       => requested = [i \in 1..49 |-> i]

\* A combination in which every fetch returned None has ended, at page 49,
\* and the enumeration is at the next combination.
C2_Witness ==
  /\ BetweenCalls /\ lastResult.isNone /\ fetched = <<>>
  /\ lastUrl.page = 49 /\ Len(requested) = 49
  /\ epc = "get" /\ CurCombo # LastCombo

\* The request that follows lastUrl when the page loop is not broken.
FollowsUnbroken ==
  IF lastUrl.page < 49
  THEN epc = "get" /\ CurCombo = LastCombo /\ page = lastUrl.page + 1
  ELSE IF ComboAfter(LastCombo) = {}
  THEN epc = "done"
  ELSE epc = "get" /\ page = 1 /\ IsNextCombo(LastCombo, CurCombo)

\* C3: a call whose every GET fails issues exactly `retries` GETs, returns
\* None without raising, and the enumerator goes on to its next request; a
\* call whose k-th GET succeeds (k <= retries) returns that response's text
\* after exactly k GETs.
C3_RetriesThenNone ==
  /\ (BetweenCalls /\ lastResult = None)
       => /\ gets = DefaultRetries
          /\ Len(waits) = DefaultRetries
          /\ FollowsUnbroken
  /\ (BetweenCalls /\ ~lastResult.isNone)
       => /\ gets \in 1..DefaultRetries
          /\ Len(waits) = gets - 1
          /\ fetched # <<>> /\ lastResult.text = fetched[Len(fetched)]
  /\ (epc = "get" /\ attempt > 0)
       => attempt < DefaultRetries /\ gets = attempt /\ Len(waits) = attempt

\* A call returned None in the middle of a combination, after an earlier
\* call of the enumeration had succeeded.
C3_Witness ==
  /\ BetweenCalls /\ lastResult = None /\ gets = 5
  /\ epc = "get" /\ page = lastUrl.page + 1
  /\ fetched # <<>>

\* A call returned the text of its third GET.
C3_WitnessSuccess ==
  BetweenCalls /\ ~lastResult.isNone /\ gets = 3

\* A text the enumerator keeps: not empty, and without the marker.
Kept(text) == text # <<>> /\ ~Contains(text)

Elements(seq) == {seq[i] : i \in 1..Len(seq)}

\* C4 as stated: the returned sequence holds the text of every page the fetch
\* client returned, and nothing else.
C4_AllFetchedReturned ==
  epc = "done" => Elements(property_html) = Elements(fetched)

\* C4, amended: the returned sequence is, in fetch order, the texts the
\* fetch client returned that are not empty and do not contain the
\* no-results marker; the marker page and an empty body are left out.
C4_KeptFetchedReturned ==
  property_html = SelectSeq(fetched, Kept)

\* The enumeration returned a page it kept, having also fetched a marker
\* page it left out.
C4_Witness ==
  /\ epc = "done"
  /\ property_html # <<>>
  /\ \E i \in 1..Len(fetched) : Contains(fetched[i])

(***************************************************************************)
(* Claims about the coordinator (SpecPool).                                *)
(***************************************************************************)
Executing == {t \in Tasks : fstate[t] = "running"}

TasksFor(postcode) == {j \in 1..Len(futures) : futures[j] = postcode}

\* C5: main submits exactly one enumeration task per postal code of the
\* list, all of them before it collects any result, and at no moment do
\* more tasks execute than the pool has workers (MaxWorkers, which stands
\* for the source's 10).
C5_OneTaskPerPostcodeBoundedPool ==
  /\ \A i \in 1..Len(Postcodes) : Cardinality(TasksFor(Postcodes[i])) <= 1
  /\ cpc # "submit" =>
       /\ Len(futures) = Len(Postcodes)
       /\ \A i \in 1..Len(Postcodes) : Cardinality(TasksFor(Postcodes[i])) = 1
  /\ cpc = "submit" => yielded = {} /\ out = <<>>
  /\ Cardinality(Executing) <= MaxWorkers

\* Every worker is busy while a task waits in the queue, main having
\* submitted every postcode.
C5_Witness ==
  /\ Cardinality(Executing) = MaxWorkers
  /\ \E t \in Tasks : fstate[t] = "queued"
  /\ cpc = "collect"

RECURSIVE SumLen(_, _)
SumLen(f, n) == IF n = 0 THEN 0 ELSE Len(f[n]) + SumLen(f, n - 1)

Occurrences(seq, x) == Cardinality({i \in 1..Len(seq) : seq[i] = x})

\* C6: when no task raises, main's final collection holds every page of
\* every task's returned list exactly once; main's collection is written by
\* the coordinating thread only, and a task's local list by the worker that
\* runs the task only.
C6_EveryPageOnceSingleWriter ==
  /\ outWriters \subseteq {MainThread}
  /\ \A t \in Tasks :
       /\ localWriters[t] \subseteq {runner[t]}
       /\ MainThread \notin localWriters[t]
  /\ cpc \in {"write", "returned"} =>
       /\ \A t \in Tasks : fstate[t] = "finished"
       /\ Len(out) = SumLen(tlocal, NumPostcodes)
       /\ \A t \in Tasks : \A k \in 1..Len(tlocal[t]) :
            Occurrences(out, tlocal[t][k]) = 1

\* The run ended with the pages of several tasks collected, a later
\* postcode's pages ahead of the first postcode's.
C6_Witness ==
  /\ cpc = "returned"
  /\ Len(out) >= 3
  /\ out[1][1] # Postcodes[1]
  /\ tlocal[1] # <<>>

(***************************************************************************)
(* Claims about the extraction functions (SpecParse) and the extraction    *)
(* stage (SpecPersist).                                                    *)
(***************************************************************************)
HtmlCalled == ppc = "done" /\ fn = "parse_html"

\* C7 as stated: parse_html never raises, and whenever an error occurs
\* inside it the record returned is the all-None default.
C7_NeverRaisesAllNoneOnError ==
  HtmlCalled => ~ret.raised /\ (ret.error => ret.data = AllNone)

\* The second half of C7 as stated, alone.
C7_AllNoneOnError == (HtmlCalled /\ ~ret.raised /\ ret.error) => ret.data = AllNone

\* C7, amended: parse_html does not raise for markup that is a string (what
\* is not a string makes the parser construction raise, outside the try
\* block); when a sub-extraction raises, the record returned keeps the
\* fields assigned before it (the sale type and date always, the price,
\* address and postcode too when the property details raise) and has None
\* in the fields of the failing step and of every later step.
C7_KeepsFieldsBeforeError ==
  HtmlCalled =>
    /\ ret.raised <=> ~arg.isString
    /\ (~ret.raised /\ ret.error) =>
         LET sale == parse_sale_info(SaleInfoElem(arg.cards))
             kept == [AllNone EXCEPT !.sale_type = sale.sale_type,
                                     !.sale_date = sale.sale_date]
         IN /\ ret.data.sale_type = sale.sale_type
            /\ ret.data.sale_date = sale.sale_date
            /\ ret.data.bedrooms = NoInt /\ ret.data.baths = NoInt
            /\ ret.data.parking = NoInt /\ ret.data.area = NoInt
            /\ ret.data.sales_page_href = None
            /\ parse_price(PriceElem(arg.cards)).raised => ret.data = kept
            /\ ~parse_price(PriceElem(arg.cards)).raised =>
                 LET address_elem == AddressElem(arg.cards)
                     parsed == parse_address(address_elem.text)
                 IN /\ ret.data.price = parse_price(PriceElem(arg.cards)).value
                    /\ ~address_elem.isNone =>
                         /\ ret.data.address = Some(parsed.address)
                         /\ ret.data.postcode = parsed.postcode
                    /\ address_elem.isNone =>
                         /\ ret.data.address = None
                         /\ ret.data.postcode = None

\* The price of the first card made int() raise after the sale type had
\* been extracted: the record returned holds the sale type.
C7_Witness ==
  /\ HtmlCalled /\ ~ret.raised /\ ret.error
  /\ ~ret.data.sale_type.isNone
  /\ ret.data.price = NoInt

\* The features of the first card made int() raise after the price and the
\* address had been extracted: the record returned holds them.
C7_WitnessDetails ==
  /\ HtmlCalled /\ ~ret.raised /\ ret.error
  /\ ~ret.data.price.isNone /\ ~ret.data.postcode.isNone
  /\ ret.data.bedrooms = NoInt

\* C8 as stated: every staged row that main has iterated, a page of N
\* property cards, has added N records to all_data, one per card.
C8_OneRecordPerCard ==
  \A i \in 1..Len(recordsOf) : recordsOf[i] = Len(staged[i].cards)

\* C8 for the pages that hold at least one card: it fails too, a page of
\* two cards adds one record.
C8_OneRecordPerCardOfNonEmptyPage ==
  \A i \in 1..Len(recordsOf) :
    staged[i].cards # <<>> => recordsOf[i] = Len(staged[i].cards)

AddressCalled == ppc = "done" /\ fn = "parse_address"

IsFourDecimals(str) == Len(str) = 4 /\ \A i \in 1..4 : IsDecimal(str[i])

\* The trailing four characters of str are all digits.
TrailingFourDigits(str) ==
  Len(str) >= 4 /\ \A i \in (Len(str) - 3)..Len(str) : IsDigitChar(str[i])

\* C9: the postcode returned by parse_address is None or a string of
\* exactly 4 digits: the trailing 4 characters when those are all digits,
\* otherwise the run of exactly 4 digits anchored at the end of the string
\* if there is one, and None for an address with no trailing 4-digit token.
C9_PostcodeNoneOrFourDigits ==
  AddressCalled =>
    LET address == ret.address
        anchored == PostcodeSearch(address)
    IN /\ ret.postcode.isNone \/ IsFourDecimals(ret.postcode.text)
       /\ TrailingFourDigits(address)
            => ret.postcode = Some(SubSeq(address, Len(address) - 3, Len(address)))
       /\ (~TrailingFourDigits(address) /\ ~anchored.isNone)
            => ret.postcode = anchored
       /\ (~TrailingFourDigits(address) /\ anchored.isNone)
            => ret.postcode.isNone

\* C9 for the addresses of at least 4 characters.
C9_HoldsFromFourCharacters ==
  (AddressCalled /\ Len(ret.address) >= 4) =>
    LET address == ret.address
        anchored == PostcodeSearch(address)
    IN /\ ret.postcode.isNone \/ IsFourDecimals(ret.postcode.text)
       /\ TrailingFourDigits(address)
            => ret.postcode = Some(SubSeq(address, Len(address) - 3, Len(address)))
       /\ (~TrailingFourDigits(address) /\ ~anchored.isNone)
            => ret.postcode = anchored
       /\ (~TrailingFourDigits(address) /\ anchored.isNone)
            => ret.postcode.isNone

PriceCalled == ppc = "done" /\ fn = "parse_price"

\* The price text with every "$" and "," removed, trimmed.
Residue(text) == Strip(SelectSeq(text, LAMBDA c : c \notin {"$", ","}))

OnlyDecimals(str) == str # <<>> /\ \A i \in 1..Len(str) : IsDecimal(str[i])

\* C10: parse_price returns the exact integer value of the residue when the
\* residue consists only of digits, and None when the residue is empty or
\* has a character that is not a digit or when there is no price element.
C10_PriceExactOrNone ==
  PriceCalled =>
    /\ ~ret.raised
    /\ IF ~arg.isNone /\ OnlyDecimals(Residue(arg.text))
       THEN ret.value = SomeInt(DecimalValue(Residue(arg.text)))
       ELSE ret.value = NoInt

\* C10 for the price texts without a superscript digit.
C10_HoldsWithoutSuperscript ==
  (PriceCalled /\ (arg.isNone \/ \A i \in 1..Len(arg.text) : arg.text[i] # Sup2))
    => /\ ~ret.raised
       /\ IF ~arg.isNone /\ OnlyDecimals(Residue(arg.text))
          THEN ret.value = SomeInt(DecimalValue(Residue(arg.text)))
          ELSE ret.value = NoInt

(***************************************************************************)
(* Claims about the persistence run (SpecPersist).                         *)
(***************************************************************************)
\* The record main appends for staged row i.
RecordOfRow(i) == parse_html(staged[i]).data

\* The records of the staged rows 1..n, in order.
RecordsOfRows(n) == [i \in 1..n |-> RecordOfRow(i)]

\* insert_data raised: main was left at the insert of a batch.
InsertAborted == mpc = "aborted" /\ chunk = <<>> /\ nread > 0

\* The staged rows that precede the batch whose last row is row n.
BatchStart(n) == ((n - 1) \div ChunkSize) * ChunkSize

\* C11: each batch is all-or-nothing and independent of the others: the
\* table always holds exactly the records of whole batches, and when the
\* insert of batch k fails the run ends there (no step follows), every row
\* of batches 1..k-1 is committed, and no row of batch k is in the table.
C11_BatchAllOrNothing ==
  /\ \E n \in 0..Len(staged) :
       /\ n = Len(staged) \/ n % ChunkSize = 0
       /\ table = RecordsOfRows(n)
  /\ InsertAborted =>
       /\ table = RecordsOfRows(BatchStart(nread))
       /\ ~ENABLED PersistNext

\* The insert of the second batch failed after it had inserted a row: the
\* first batch is committed.
C11_Witness ==
  /\ InsertAborted
  /\ table # <<>>
  /\ txn # <<>>

(***************************************************************************)
(* Claims about the backoff of fetch_property_data (SpecEnum).             *)
(***************************************************************************)
\* The sleep after the k-th failed attempt of the call has base delay 2^k,
\* and the delays do not decrease.
BaseDelays ==
  /\ \A k \in 1..Len(waits) : waits[k] = 2^k
  /\ \A j, k \in 1..Len(waits) : j <= k => waits[j] <= waits[k]

\* C12: within one fetch_property_data call the sleeps occur only between
\* consecutive GET attempts, so every sleep is followed by another attempt
\* (a call that has returned slept fewer times than it issued GETs), and
\* the sleep after the k-th failed attempt has base delay 2^k, the delays
\* being non-decreasing.
C12_SleepsOnlyBetweenAttempts ==
  /\ BaseDelays
  /\ BetweenCalls => Len(waits) < gets

\* C12 without its first half: the base delays alone. They are as stated.
C12_BaseDelaysDouble == BaseDelays

\* C12 for the calls that return a response: their sleeps are all between
\* attempts.
C12_HoldsWhenCallSucceeds ==
  (BetweenCalls /\ ~lastResult.isNone) => Len(waits) = gets - 1

(***************************************************************************)
(* Claims about a task that raises (SpecPool).                             *)
(***************************************************************************)
SomeTaskRaised == \E t \in Tasks : fstate[t] = "raised"

\* C13: when a task has raised, main does not swallow the error: it never
\* reaches the writing of the staging file nor returns, the staging file
\* is not written, and the run can only end with the error leaving main.
C13_TaskErrorPropagates ==
  SomeTaskRaised =>
    /\ cpc \notin {"write", "returned"}
    /\ ~csv.written
    /\ (~ENABLED PoolNext) => cpc = "failed"

\* The error of a task has left main after main had collected the pages of
\* a task that returned: the staging file is not written.
C13_Witness ==
  /\ cpc = "failed"
  /\ SomeTaskRaised
  /\ out # <<>>
  /\ ~csv.written

(***************************************************************************)
(* Claims about the rows written by the persistence run (SpecPersist).     *)
(***************************************************************************)
\* C14: every staged row yields exactly one row of the table, written
\* once: after each commit the table has as many rows as staged rows have
\* been read, the table holds the records of the rows read, in order and
\* with the identical ones repeated, all_data is empty at the start of
\* every chunk, and a run that closes has written one row per staged row.
C14_EachRowWrittenOnce ==
  /\ \A c \in 1..Len(commits) : commits[c].rows = commits[c].read
  /\ mpc \in {"read", "closed"} =>
       /\ all_data = <<>>
       /\ txn = <<>>
       /\ table = RecordsOfRows(nread)
  /\ mpc = "closed" => Len(table) = Len(staged)

\* A run of two batches has closed, and the table holds the record of two
\* identical staged rows twice.
C14_Witness ==
  /\ mpc = "closed"
  /\ Len(commits) >= 2
  /\ \E i, j \in 1..Len(table) :
       i < j /\ staged[i] = staged[j] /\ table[i] = table[j]

====
